---- MODULE Spec2Model ----
(***************************************************************************)
(* Incident-state consolidation (generador_reportes/02_postproceso.py)     *)
(* and priority classification (modules/data_processor.py) of the station  *)
(* availability dashboard.                                                 *)
(*                                                                         *)
(* Encoding of the Python values:                                          *)
(*   - percentages are integers in hundredths of a percent (Escala), an    *)
(*     optional value is <<>> (NaN/None/NaT) or <<v>>;                     *)
(*   - dates are proleptic-Gregorian day numbers, optional as above;       *)
(*   - incident states are strings kept as sequences of characters, so     *)
(*     that ==, lower(), strip() and `in` are computed as Python does.     *)
(***************************************************************************)
EXTENDS Integers, Sequences, FiniteSets, TLC

VARIABLES pc, periodo, fecha_ref, prev, act, final, ahora, proc

vars == <<pc, periodo, fecha_ref, prev, act, final, ahora, proc>>

----------------------------------------------------------------------------
(* Bounds of the model *)

\* number of reporting periods that are chained (output fed back as previous)
MaxPeriodos == 2

\* largest delay, in days, between the reference date and the dashboard's clock
MaxRetraso == 1

\* number of stations of the rosters
MaxEstaciones == 2

----------------------------------------------------------------------------
(* Optional values *)

Nada == <<>>

Algo(v) == <<v>>

\* Python's None where the code tests `is None` (NaN is not None); a pair, so
\* that it differs from every <<v>> and from <<>>
PyNone == <<0, 0>>

\* pd.isna
isna(x) == x = Nada \/ x = PyNone

Val(x) == x[1]

----------------------------------------------------------------------------
(* config.AppConfig *)

\* disponibilidad is rounded to 2 decimals: hundredths of a percent
Escala == 100

THRESHOLD_CRITICAL == 80 * Escala

THRESHOLD_ANOMALY == 100 * Escala

PRIORITY_HIGH_MAX_DAYS == 30

\* variant: the post-solution monitoring uses the 30-day limit of new incidents
PRIORITY_MEDIUM_MONITOR_DAYS_alta == PRIORITY_HIGH_MAX_DAYS

PRIORITY_MEDIUM_MONITOR_DAYS == 5

PRIORITY_PARALIZADA_MIN_DAYS == 90

PRIORITY_CLAUSURA_MIN_DAYS == 730

\* the literal 0.5 of clasificar_prioridad
DISP_PARALIZADA == Escala \div 2

\* timedelta(days=5) of determinar_estado
TOLERANCIA_DIAS == 5

----------------------------------------------------------------------------
(* Strings *)

Mayusculas == <<"A","B","C","D","E","F","G","H","I","J","K","L","M",
                "N","O","P","Q","R","S","T","U","V","W","X","Y","Z">>

Minusculas == <<"a","b","c","d","e","f","g","h","i","j","k","l","m",
                "n","o","p","q","r","s","t","u","v","w","x","y","z">>

lower_char(c) ==
    IF \E i \in 1..Len(Mayusculas) : Mayusculas[i] = c
    THEN Minusculas[CHOOSE i \in 1..Len(Mayusculas) : Mayusculas[i] = c]
    ELSE c

lower(s) == [i \in 1..Len(s) |-> lower_char(s[i])]

RECURSIVE lstrip(_)
lstrip(s) == IF s # <<>> /\ Head(s) = " " THEN lstrip(Tail(s)) ELSE s

RECURSIVE rstrip(_)
rstrip(s) ==
    IF s # <<>> /\ s[Len(s)] = " " THEN rstrip(SubSeq(s, 1, Len(s) - 1)) ELSE s

strip(s) == rstrip(lstrip(s))

\* Python's `sub in s`
Contiene(sub, s) ==
    \E i \in 0..(Len(s) - Len(sub)) : SubSeq(s, i + 1, i + Len(sub)) = sub

\* a missing cell of the estado_inci column (NaN)
EstadoNaN == <<"<NaN>">>

S_nan == <<"n","a","n">>

S_SinIncidencia == <<"S","i","n"," ","i","n","c","i","d","e","n","c","i","a">>

S_Nueva == <<"N","u","e","v","a">>

S_Recurrente == <<"R","e","c","u","r","r","e","n","t","e">>

S_Solucionado == <<"S","o","l","u","c","i","o","n","a","d","o">>

S_Solucionada == <<"S","o","l","u","c","i","o","n","a","d","a">>

S_Paralizada == <<"P","a","r","a","l","i","z","a","d","a">>

S_NUEVA_esp == <<" ","N","U","E","V","A"," ">>

S_nueva_min == <<"n","u","e","v","a">>

S_NuevaRecurrente == <<"N","u","e","v","a","/","R","e","c","u","r","r","e","n","t","e">>

S_Otro == <<"O","t","r","o">>

k_nueva == <<"n","u","e","v","a">>

k_recurrente == <<"r","e","c","u","r","r","e","n","t","e">>

k_solucionado == <<"s","o","l","u","c","i","o","n","a","d","o">>

k_solucionada == <<"s","o","l","u","c","i","o","n","a","d","a">>

k_paralizada == <<"p","a","r","a","l","i","z","a","d","a">>

\* str(value) of a cell of the estado_inci column
str(e) == IF e = EstadoNaN THEN S_nan ELSE e

\* a missing comment (pd.NA / NaN)
ComNA == "<NA>"

----------------------------------------------------------------------------
(* Dates *)

\* datetime.strptime(s, "%d/%m/%Y").date() as a day number
Ordinal(y, m, d) ==
    LET yy  == IF m <= 2 THEN y - 1 ELSE y
        era == yy \div 400
        yoe == yy - era * 400
        mp  == (m + 9) % 12
        doy == (153 * mp + 2) \div 5 + d - 1
        doe == yoe * 365 + yoe \div 4 - yoe \div 100 + doy
    IN  era * 146097 + doe

----------------------------------------------------------------------------
(* Availability buckets *)

B_NoRecibido == "No recibido en el periodo"

B_Menos30 == "Problemas de disponibilidad (< 30%)"

B_Mas30 == "Problemas de disponibilidad (>= 30%)"

B_Normal == "Normal (>= 80%)"

B_Mas100 == "Mas del 100%"

\* a missing cell of a var_disp column
VarNaN == "<NaN>"

clasificar_var_disp_num(p) ==
    IF isna(p) THEN B_NoRecibido
    ELSE IF Val(p) > 100 * Escala THEN B_Mas100
    ELSE IF Val(p) >= 80 * Escala THEN B_Normal
    ELSE IF Val(p) >= 30 * Escala THEN B_Mas30
    ELSE IF Val(p) > 0 THEN B_Menos30
    ELSE B_NoRecibido

----------------------------------------------------------------------------
(* 02_postproceso.py: load, merge and reconcile one (DZ, Estacion) key *)

\* df_prev row as prepared for the merge (f_inci coerced to a date or NaT,
\* disponibilidad coerced to a number or NaN, var_disp recomputed from it)
PrevProc(p) ==
    [disponibilidad_prev |-> p.disponibilidad,
     var_disp_prev       |-> clasificar_var_disp_num(p.disponibilidad),
     f_inci              |-> p.f_inci,
     estado_inci         |-> p.estado_inci,
     comentario          |-> p.comentario]

\* df_act row as prepared for the merge
ActProc(a) ==
    [disponibilidad_act |-> a.disponibilidad,
     var_disp_act       |-> clasificar_var_disp_num(a.disponibilidad)]

\* pd.merge(df_act_proc, df_prev_proc, how="outer", indicator=True): the row
\* of a key found in the current report (left), the previous one (right) or both
merged(p, a) ==
    LET l == IF a.presente THEN ActProc(a)
             ELSE [disponibilidad_act |-> Nada, var_disp_act |-> VarNaN]
        r == IF p.presente THEN PrevProc(p)
             ELSE [disponibilidad_prev |-> Nada, var_disp_prev |-> VarNaN,
                   f_inci |-> Nada, estado_inci |-> EstadoNaN,
                   comentario |-> ComNA]
    IN  [_merge |-> IF a.presente /\ p.presente THEN "both"
                    ELSE IF a.presente THEN "left_only" ELSE "right_only",
         disponibilidad_act  |-> l.disponibilidad_act,
         var_disp_act        |-> l.var_disp_act,
         disponibilidad_prev |-> r.disponibilidad_prev,
         var_disp_prev       |-> r.var_disp_prev,
         f_inci              |-> r.f_inci,
         estado_inci         |-> r.estado_inci,
         comentario          |-> r.comentario]

\* variant: a bucket above 100% is not an incidence either
is_incidence_exceso(var) == var # VarNaN /\ var # B_Normal /\ var # B_Mas100

\* helper of determinar_estado; None is VarNaN
is_incidence(var) == var # VarNaN /\ var # B_Normal

\* variant: a station that stops reporting has its open incident closed
caso_solo_previo_solucionado(row) ==
    [estado_inci |-> IF row.estado_inci \in {S_Nueva, S_Recurrente}
                     THEN S_Solucionado
                     ELSE IF row.estado_inci # EstadoNaN THEN row.estado_inci
                     ELSE S_SinIncidencia,
     f_inci      |-> row.f_inci,
     comentario  |-> row.comentario]

\* "Caso: solo en previo": the key is missing from the current report
caso_solo_previo(row) ==
    [estado_inci |-> IF row.estado_inci # EstadoNaN THEN row.estado_inci
                     ELSE S_SinIncidencia,
     f_inci      |-> row.f_inci,
     comentario  |-> row.comentario]

\* "Caso: solo en actual": the key is new in the current report
caso_solo_actual(row) ==
    IF row.var_disp_act = VarNaN THEN
        [estado_inci |-> S_SinIncidencia, f_inci |-> Nada, comentario |-> ComNA]
    ELSE IF is_incidence(row.var_disp_act) THEN
        [estado_inci |-> S_Nueva, f_inci |-> Nada, comentario |-> ComNA]
    ELSE
        [estado_inci |-> S_SinIncidencia, f_inci |-> Nada, comentario |-> ComNA]

\* variant: a solved incident stays 'Solucionado' while the station is normal
caso_ambos_normal_solucionado(row) ==
    IF row.estado_inci \in {S_Nueva, S_Recurrente, S_Solucionado} THEN
        [estado_inci |-> S_Solucionado, f_inci |-> row.f_inci,
         comentario |-> row.comentario]
    ELSE
        [estado_inci |-> S_SinIncidencia, f_inci |-> Nada,
         comentario |-> row.comentario]

\* variant: the comment is dropped when the incident is solved
caso_ambos_normal_sin_comentario(row) ==
    IF row.estado_inci \in {S_Nueva, S_Recurrente} THEN
        [estado_inci |-> S_Solucionado, f_inci |-> row.f_inci,
         comentario |-> ComNA]
    ELSE
        [estado_inci |-> S_SinIncidencia, f_inci |-> Nada,
         comentario |-> row.comentario]

\* variant: the start date survives when there is no incident to report
caso_ambos_normal_conserva_fecha(row) ==
    IF row.estado_inci \in {S_Nueva, S_Recurrente} THEN
        [estado_inci |-> S_Solucionado, f_inci |-> row.f_inci,
         comentario |-> row.comentario]
    ELSE
        [estado_inci |-> S_SinIncidencia, f_inci |-> row.f_inci,
         comentario |-> row.comentario]

\* "Caso: en ambos", current bucket Normal
caso_ambos_normal(row) ==
    IF row.estado_inci \in {S_Nueva, S_Recurrente} THEN
        [estado_inci |-> S_Solucionado, f_inci |-> row.f_inci,
         comentario |-> row.comentario]
    ELSE
        [estado_inci |-> S_SinIncidencia, f_inci |-> Nada,
         comentario |-> row.comentario]

\* variant: the tolerance ends on the fifth day (>= instead of >)
caso_ambos_incidencia_borde(row, f_ref) ==
    LET estado_prev == row.estado_inci
        f_inci_prev == row.f_inci
    IN
    IF estado_prev \in {EstadoNaN, S_SinIncidencia} THEN
        [estado_inci |-> S_Nueva, f_inci |-> Nada, comentario |-> ComNA]
    ELSE IF estado_prev = S_Nueva THEN
        IF isna(f_inci_prev) THEN
            [estado_inci |-> S_Recurrente, f_inci |-> f_inci_prev,
             comentario |-> row.comentario]
        ELSE IF f_ref - Val(f_inci_prev) >= TOLERANCIA_DIAS THEN
            [estado_inci |-> S_Recurrente, f_inci |-> f_inci_prev,
             comentario |-> row.comentario]
        ELSE
            [estado_inci |-> S_Nueva, f_inci |-> f_inci_prev,
             comentario |-> row.comentario]
    ELSE IF estado_prev = S_Recurrente THEN
        [estado_inci |-> S_Recurrente, f_inci |-> f_inci_prev,
         comentario |-> row.comentario]
    ELSE
        [estado_inci |-> S_Nueva, f_inci |-> Nada, comentario |-> ComNA]

\* variant: a new incident is dated with the reference date
caso_ambos_incidencia_fecha(row, f_ref) ==
    LET estado_prev == row.estado_inci
        f_inci_prev == row.f_inci
    IN
    IF estado_prev \in {EstadoNaN, S_SinIncidencia} THEN
        [estado_inci |-> S_Nueva, f_inci |-> Algo(f_ref), comentario |-> ComNA]
    ELSE IF estado_prev = S_Nueva THEN
        IF isna(f_inci_prev) THEN
            [estado_inci |-> S_Recurrente, f_inci |-> f_inci_prev,
             comentario |-> row.comentario]
        ELSE IF f_ref - Val(f_inci_prev) > TOLERANCIA_DIAS THEN
            [estado_inci |-> S_Recurrente, f_inci |-> f_inci_prev,
             comentario |-> row.comentario]
        ELSE
            [estado_inci |-> S_Nueva, f_inci |-> f_inci_prev,
             comentario |-> row.comentario]
    ELSE IF estado_prev = S_Recurrente THEN
        [estado_inci |-> S_Recurrente, f_inci |-> f_inci_prev,
         comentario |-> row.comentario]
    ELSE
        [estado_inci |-> S_Nueva, f_inci |-> Algo(f_ref), comentario |-> ComNA]

\* variant: a previous state that is not recognised is kept as it is
caso_ambos_incidencia_conserva(row, f_ref) ==
    LET estado_prev == row.estado_inci
        f_inci_prev == row.f_inci
    IN
    IF estado_prev \in {EstadoNaN, S_SinIncidencia} THEN
        [estado_inci |-> S_Nueva, f_inci |-> Nada, comentario |-> ComNA]
    ELSE IF estado_prev = S_Nueva THEN
        IF isna(f_inci_prev) THEN
            [estado_inci |-> S_Recurrente, f_inci |-> f_inci_prev,
             comentario |-> row.comentario]
        ELSE IF f_ref - Val(f_inci_prev) > TOLERANCIA_DIAS THEN
            [estado_inci |-> S_Recurrente, f_inci |-> f_inci_prev,
             comentario |-> row.comentario]
        ELSE
            [estado_inci |-> S_Nueva, f_inci |-> f_inci_prev,
             comentario |-> row.comentario]
    ELSE IF estado_prev = S_Recurrente THEN
        [estado_inci |-> S_Recurrente, f_inci |-> f_inci_prev,
         comentario |-> row.comentario]
    ELSE
        [estado_inci |-> estado_prev, f_inci |-> f_inci_prev,
         comentario |-> row.comentario]

\* "Caso: en ambos", current bucket with incidence
caso_ambos_incidencia(row, f_ref) ==
    LET estado_prev == row.estado_inci
        f_inci_prev == row.f_inci
    IN
    IF estado_prev \in {EstadoNaN, S_SinIncidencia} THEN
        [estado_inci |-> S_Nueva, f_inci |-> Nada, comentario |-> ComNA]
    ELSE IF estado_prev = S_Nueva THEN
        IF isna(f_inci_prev) THEN
            [estado_inci |-> S_Recurrente, f_inci |-> f_inci_prev,
             comentario |-> row.comentario]
        ELSE IF f_ref - Val(f_inci_prev) > TOLERANCIA_DIAS THEN
            [estado_inci |-> S_Recurrente, f_inci |-> f_inci_prev,
             comentario |-> row.comentario]
        ELSE
            [estado_inci |-> S_Nueva, f_inci |-> f_inci_prev,
             comentario |-> row.comentario]
    ELSE IF estado_prev = S_Recurrente THEN
        [estado_inci |-> S_Recurrente, f_inci |-> f_inci_prev,
         comentario |-> row.comentario]
    ELSE
        [estado_inci |-> S_Nueva, f_inci |-> Nada, comentario |-> ComNA]

determinar_estado(row, f_ref) ==
    LET var_act == IF row.var_disp_act = VarNaN THEN B_NoRecibido
                   ELSE row.var_disp_act
    IN
    IF row._merge = "right_only" THEN caso_solo_previo(row)
    ELSE IF row._merge = "left_only" THEN caso_solo_actual(row)
    ELSE IF ~ is_incidence(var_act) THEN caso_ambos_normal(row)
    ELSE caso_ambos_incidencia(row, f_ref)

\* one iteration of the res_list loop and the normalisation of df_final
res(row, f_ref) ==
    LET r      == determinar_estado(row, f_ref)
        actual == row._merge \in {"both", "left_only"}
        disp   == IF actual THEN row.disponibilidad_act ELSE Algo(0)
        var0   == IF actual /\ row.var_disp_act # VarNaN THEN row.var_disp_act
                  ELSE row.var_disp_prev
    IN  [disponibilidad |-> IF isna(disp) THEN Algo(0) ELSE disp,
         var_disp       |-> IF var0 = VarNaN THEN clasificar_var_disp_num(disp)
                            ELSE var0,
         f_inci         |-> r.f_inci,
         estado_inci    |-> r.estado_inci,
         comentario     |-> r.comentario,
         fuente         |-> IF row._merge = "both" THEN "ambos"
                            ELSE IF row._merge = "left_only" THEN "actual"
                            ELSE "anterior"]

----------------------------------------------------------------------------
(* modules/data_processor.py: DataProcessor *)

\* comparisons of a possibly-NaN number with a threshold (NaN compares False)
Ge(x, t) == ~ isna(x) /\ Val(x) >= t

Le(x, t) == ~ isna(x) /\ Val(x) <= t

Lt(x, t) == ~ isna(x) /\ Val(x) < t

\* variant: a row without start date counts its days from the first reference
\* date
calcular_dias_desde_incidencia_epoca(f_inci, fecha_referencia) ==
    IF isna(f_inci) THEN Algo(fecha_referencia - Ordinal(2025, 11, 4))
    ELSE Algo(fecha_referencia - Val(f_inci))

\* f_inci is a date cell (or NaT); fecha_referencia is the clock's day:
\* (fecha_referencia - fecha_inci).days
calcular_dias_desde_incidencia(f_inci, fecha_referencia) ==
    IF isna(f_inci) THEN Nada
    ELSE Algo(fecha_referencia - Val(f_inci))

\* variant: the explicit state 'Nueva' is tested before the paralysed check
clasificar_prioridad_estado_primero(row) ==
    LET estado         == strip(lower(str(row.estado_inci)))
        dias0          == row.dias_desde_inci
        disponibilidad == row.disponibilidad
        dias           == IF isna(dias0) THEN 0 ELSE Val(dias0)
    IN
    IF isna(dias0) /\ Ge(disponibilidad, THRESHOLD_CRITICAL) THEN "N/A"
    ELSE IF Contiene(k_nueva, estado) THEN
        IF dias <= PRIORITY_HIGH_MAX_DAYS THEN "ALTA" ELSE "MEDIA"
    ELSE IF Le(disponibilidad, DISP_PARALIZADA)
            /\ dias >= PRIORITY_PARALIZADA_MIN_DAYS THEN "BAJA"
    ELSE IF Contiene(k_recurrente, estado) THEN "MEDIA"
    ELSE IF Contiene(k_solucionado, estado) \/ Contiene(k_solucionada, estado) THEN
        IF dias <= PRIORITY_MEDIUM_MONITOR_DAYS THEN "MEDIA" ELSE "N/A"
    ELSE IF Contiene(k_paralizada, estado) THEN "MEDIA"
    ELSE IF Lt(disponibilidad, THRESHOLD_CRITICAL) THEN
        IF dias <= PRIORITY_HIGH_MAX_DAYS THEN "ALTA" ELSE "MEDIA"
    ELSE "N/A"

clasificar_prioridad(row) ==
    LET estado         == strip(lower(str(row.estado_inci)))
        dias0          == row.dias_desde_inci
        disponibilidad == row.disponibilidad
        dias           == IF isna(dias0) THEN 0 ELSE Val(dias0)
    IN
    IF isna(dias0) /\ Ge(disponibilidad, THRESHOLD_CRITICAL) THEN "N/A"
    ELSE IF Le(disponibilidad, DISP_PARALIZADA)
            /\ dias >= PRIORITY_PARALIZADA_MIN_DAYS THEN "BAJA"
    ELSE IF Contiene(k_nueva, estado) THEN
        IF dias <= PRIORITY_HIGH_MAX_DAYS THEN "ALTA" ELSE "MEDIA"
    ELSE IF Contiene(k_recurrente, estado) THEN "MEDIA"
    ELSE IF Contiene(k_solucionado, estado) \/ Contiene(k_solucionada, estado) THEN
        IF dias <= PRIORITY_MEDIUM_MONITOR_DAYS THEN "MEDIA" ELSE "N/A"
    ELSE IF Contiene(k_paralizada, estado) THEN "MEDIA"
    ELSE IF Lt(disponibilidad, THRESHOLD_CRITICAL) THEN
        IF dias <= PRIORITY_HIGH_MAX_DAYS THEN "ALTA" ELSE "MEDIA"
    ELSE "N/A"

\* variant: the closure-candidate suffix is appended to every template but
\* the operative one
generar_razon_prioridad_siempre(row) ==
    LET prioridad      == row.prioridad
        estado         == strip(str(row.estado_inci))
        dias           == row.dias_desde_inci
        disponibilidad == row.disponibilidad
        dias_texto     == IF isna(dias) THEN "sin fecha" ELSE "dias"
        alerta         == ~ isna(dias) /\ Val(dias) >= PRIORITY_CLAUSURA_MIN_DAYS
    IN
    IF prioridad = "N/A" THEN
        [plantilla |-> "Operativa", dias_texto |-> "", clausura |-> FALSE]
    ELSE IF prioridad = "ALTA" THEN
        IF Lt(disponibilidad, THRESHOLD_CRITICAL) THEN
            [plantilla |-> "Nueva + Disponibilidad critica",
             dias_texto |-> dias_texto, clausura |-> alerta]
        ELSE
            [plantilla |-> "Incidencia nueva",
             dias_texto |-> dias_texto, clausura |-> alerta]
    ELSE IF prioridad = "MEDIA" THEN
        IF Contiene(k_recurrente, lower(estado)) THEN
            [plantilla |-> "Recurrente", dias_texto |-> dias_texto, clausura |-> alerta]
        ELSE IF Contiene(k_solucionado, lower(estado)) THEN
            [plantilla |-> "Solucionada", dias_texto |-> dias_texto, clausura |-> alerta]
        ELSE
            [plantilla |-> "En proceso", dias_texto |-> dias_texto, clausura |-> alerta]
    ELSE IF prioridad = "BAJA" THEN
        [plantilla |-> "Paralizada", dias_texto |-> dias_texto, clausura |-> alerta]
    ELSE
        [plantilla |-> "Estado", dias_texto |-> dias_texto, clausura |-> alerta]

\* the returned text, kept as the template chosen, the elapsed-time text and
\* whether the closure-candidate suffix is part of the returned string
generar_razon_prioridad(row) ==
    LET prioridad      == row.prioridad
        estado         == strip(str(row.estado_inci))
        dias           == row.dias_desde_inci
        disponibilidad == row.disponibilidad
        dias_texto     == IF isna(dias) THEN "sin fecha" ELSE "dias"
        alerta         == ~ isna(dias) /\ Val(dias) >= PRIORITY_CLAUSURA_MIN_DAYS
    IN
    IF prioridad = "N/A" THEN
        [plantilla |-> "Operativa", dias_texto |-> "", clausura |-> FALSE]
    ELSE IF prioridad = "ALTA" THEN
        IF Lt(disponibilidad, THRESHOLD_CRITICAL) THEN
            [plantilla |-> "Nueva + Disponibilidad critica",
             dias_texto |-> dias_texto, clausura |-> FALSE]
        ELSE
            [plantilla |-> "Incidencia nueva",
             dias_texto |-> dias_texto, clausura |-> FALSE]
    ELSE IF prioridad = "MEDIA" THEN
        IF Contiene(k_recurrente, lower(estado)) THEN
            [plantilla |-> "Recurrente", dias_texto |-> dias_texto, clausura |-> FALSE]
        ELSE IF Contiene(k_solucionado, lower(estado)) THEN
            [plantilla |-> "Solucionada", dias_texto |-> dias_texto, clausura |-> FALSE]
        ELSE
            [plantilla |-> "En proceso", dias_texto |-> dias_texto, clausura |-> FALSE]
    ELSE IF prioridad = "BAJA" THEN
        [plantilla |-> "Paralizada", dias_texto |-> dias_texto, clausura |-> alerta]
    ELSE
        [plantilla |-> "Estado", dias_texto |-> dias_texto, clausura |-> FALSE]

\* the columns procesar_estaciones adds to one row of the POR ESTACION sheet;
\* reloj is datetime.now() at the time of the call
procesar_estaciones(fila, reloj) ==
    LET dias == calcular_dias_desde_incidencia(fila.f_inci, reloj)
        r1   == [estado_inci |-> fila.estado_inci, dias_desde_inci |-> dias,
                 disponibilidad |-> fila.disponibilidad]
        prio == clasificar_prioridad(r1)
        r2   == [estado_inci |-> fila.estado_inci, dias_desde_inci |-> dias,
                 disponibilidad |-> fila.disponibilidad, prioridad |-> prio]
    IN  [dias_desde_inci |-> dias,
         prioridad       |-> prio,
         razon_prioridad |-> generar_razon_prioridad(r2),
         es_anomalia     |-> ~ isna(fila.disponibilidad)
                             /\ Val(fila.disponibilidad) > THRESHOLD_ANOMALY]

----------------------------------------------------------------------------
(* Inputs *)

\* reference date typed in for the first period
FechaRef0 == Ordinal(2025, 11, 4)

\* ages (reference date minus f_inci, in days) of the recorded incidents
Antiguedades ==
    {-1, 4, 5, 6, 30, 31, 89, 90, FechaRef0 - Ordinal(2023, 1, 1)}

FechasInci == {Nada} \cup {Algo(FechaRef0 - k) : k \in Antiguedades}

\* days between the reference dates of two consecutive periods
Pasos == {1, 6, 90}

\* disponibilidad cells of the current report, in hundredths of a percent
DispAct == {Nada, Algo(0), Algo(30), Algo(50), Algo(51), Algo(2999), Algo(3000),
            Algo(7999), Algo(8000), Algo(10000), Algo(10001), Algo(15000)}

DispPrev == {Nada, Algo(0), Algo(9000)}

Comentarios == {ComNA, "revisar"}

\* estado_inci cells of a previous report
EstadosPrev == {EstadoNaN, S_SinIncidencia, S_Nueva, S_Recurrente,
                S_Solucionado, S_Paralizada, S_nueva_min, S_Otro}

\* estado_inci cells of a sheet loaded into the dashboard
EstadosHoja == EstadosPrev \cup {S_Solucionada, S_NUEVA_esp, S_NuevaRecurrente, S_Otro}

PrevAusente ==
    [presente |-> FALSE, disponibilidad |-> Nada, f_inci |-> Nada,
     estado_inci |-> EstadoNaN, comentario |-> ComNA]

PrevFilas ==
    {PrevAusente} \cup
    [presente : {TRUE}, disponibilidad : DispPrev, f_inci : FechasInci,
     estado_inci : EstadosPrev, comentario : Comentarios]

ActAusente == [presente |-> FALSE, disponibilidad |-> Nada]

ActFilas == {ActAusente} \cup [presente : {TRUE}, disponibilidad : DispAct]

\* no row yet
NoFila ==
    [disponibilidad |-> Nada, var_disp |-> VarNaN, f_inci |-> Nada,
     estado_inci |-> EstadoNaN, comentario |-> ComNA, fuente |-> "ninguna"]

NoProc ==
    [dias_desde_inci |-> Nada, prioridad |-> "",
     razon_prioridad |-> [plantilla |-> "", dias_texto |-> "", clausura |-> FALSE],
     es_anomalia |-> FALSE]

\* rows of a POR ESTACION sheet loaded into the dashboard
HojaFilas ==
    [disponibilidad : DispAct, var_disp : {VarNaN}, f_inci : FechasInci,
     estado_inci : EstadosHoja, comentario : {ComNA}, fuente : {"hoja"}]

----------------------------------------------------------------------------
(* The consolidation pipeline, one (DZ, Estacion) key *)

Init ==
    /\ pc = "inicio"
    /\ periodo = 1
    /\ fecha_ref = FechaRef0
    /\ prev \in PrevFilas
    /\ act \in ActFilas
    /\ prev.presente \/ act.presente
    /\ final = NoFila
    /\ ahora = fecha_ref
    /\ proc = NoProc

\* 02_postproceso.py run on the two reports with the reference date
Consolidar ==
    /\ pc = "inicio"
    /\ final' = res(merged(prev, act), fecha_ref)
    /\ pc' = "consolidado"
    /\ UNCHANGED <<periodo, fecha_ref, prev, act, ahora, proc>>

\* the dashboard loads the sheet and calls procesar_estaciones
Procesar ==
    /\ pc = "consolidado"
    /\ \E retraso \in 0..MaxRetraso :
          /\ ahora' = fecha_ref + retraso
          /\ proc' = procesar_estaciones(final, ahora')
    /\ pc' = "procesado"
    /\ UNCHANGED <<periodo, fecha_ref, prev, act, final>>

\* the consolidated output becomes the previous report of the next period
SiguientePeriodo ==
    /\ pc \in {"consolidado", "procesado"}
    /\ periodo < MaxPeriodos
    /\ periodo' = periodo + 1
    /\ \E paso \in Pasos : fecha_ref' = fecha_ref + paso
    /\ prev' = [presente |-> TRUE, disponibilidad |-> final.disponibilidad,
                f_inci |-> final.f_inci, estado_inci |-> final.estado_inci,
                comentario |-> final.comentario]
    /\ act' \in ActFilas
    /\ final' = NoFila
    /\ proc' = NoProc
    /\ ahora' = fecha_ref'
    /\ pc' = "inicio"

Next == Consolidar \/ Procesar \/ SiguientePeriodo

Spec == Init /\ [][Next]_vars

\* the script is run on every report and the reports keep coming
SpecPeriodos ==
    Init /\ [][Next]_vars /\ WF_vars(Consolidar) /\ WF_vars(SiguientePeriodo)

----------------------------------------------------------------------------
(* The dashboard on an arbitrary POR ESTACION sheet *)

InitHoja ==
    /\ pc = "consolidado"
    /\ periodo = MaxPeriodos
    /\ fecha_ref = FechaRef0
    /\ prev = PrevAusente
    /\ act = ActAusente
    /\ final \in HojaFilas
    /\ ahora = fecha_ref
    /\ proc = NoProc

NextHoja == Procesar

SpecHoja == InitHoja /\ [][NextHoja]_vars

----------------------------------------------------------------------------
(* Vocabulary of the properties *)

\* the row has been consolidated in the current period
Consolidado == pc \in {"consolidado", "procesado"}

Procesado == pc = "procesado"

EnAmbos == prev.presente /\ act.presente

\* bucket of the current period's availability
BucketAct == clasificar_var_disp_num(act.disponibilidad)

Critico(b) == b \in {B_NoRecibido, B_Menos30, B_Mas30}

Ok(b) == b \in {B_Normal, B_Mas100}

\* days between the reference date and the previous start date
Transcurridos == fecha_ref - Val(prev.f_inci)

\* a missing state cell and 'Sin incidencia' are the same incident state
Enum(e) == IF e = EstadoNaN THEN S_SinIncidencia ELSE e

\* the incident state mentions the keyword, whatever the letter case
Menciona(k, e) == Contiene(k, lower(str(e)))

----------------------------------------------------------------------------
(* Priority classifier *)

\* C1: the priority is BAJA exactly when availability <= 0.5 and the elapsed
\* days are known and >= 90, for every incident state (including "Nueva").
C1_BajaExactamente ==
    Procesado =>
        (proc.prioridad = "BAJA"
            <=> /\ ~ isna(final.disponibilidad)
                /\ 10 * Val(final.disponibilidad) <= 5 * Escala
                /\ ~ isna(proc.dias_desde_inci)
                /\ Val(proc.dias_desde_inci) >= 90)

\* a "Nueva" row at 0.3% whose incident is 90 days old has been classified
C1_Witness ==
    /\ Procesado
    /\ final.estado_inci = S_Nueva
    /\ final.disponibilidad = Algo(30)
    /\ proc.dias_desde_inci = Algo(90)
    /\ proc.prioridad = "BAJA"

\* the tier of the first matching rule of the ordered list
PrimeraRegla(e, d0, a) ==
    LET d == IF isna(d0) THEN 0 ELSE Val(d0)
    IN
    IF isna(d0) /\ ~ isna(a) /\ Val(a) >= 80 * Escala THEN "N/A"
    ELSE IF ~ isna(a) /\ 10 * Val(a) <= 5 * Escala /\ d >= 90 THEN "BAJA"
    ELSE IF Menciona(k_nueva, e) THEN (IF d <= 30 THEN "ALTA" ELSE "MEDIA")
    ELSE IF Menciona(k_recurrente, e) THEN "MEDIA"
    ELSE IF Menciona(k_solucionado, e) \/ Menciona(k_solucionada, e) THEN
        (IF d <= 5 THEN "MEDIA" ELSE "N/A")
    ELSE IF Menciona(k_paralizada, e) THEN "MEDIA"
    ELSE IF ~ isna(a) /\ Val(a) < 80 * Escala THEN
        (IF d <= 30 THEN "ALTA" ELSE "MEDIA")
    ELSE "N/A"

----------------------------------------------------------------------------
(* Reconciler and the whole pipeline *)

\* C3: a station recorded as Paralizada since 2023-01-01 and not received in
\* the current period, reconciled with reference date 2025-11-04 and then
\* classified, has priority BAJA with the closure-candidate annotation; a
\* station at 0% whose incident is more than a year old is never ALTA.
C3_ParalizadaCronica ==
    (Procesado /\ EnAmbos /\ prev.estado_inci = S_Paralizada
        /\ ~ isna(prev.f_inci) /\ act.disponibilidad = Algo(0)) =>
        /\ (fecha_ref = Ordinal(2025, 11, 4)
              /\ prev.f_inci = Algo(Ordinal(2023, 1, 1)))
            => (proc.prioridad = "BAJA" /\ proc.razon_prioridad.clausura)
        /\ Transcurridos > 365 => proc.prioridad # "ALTA"

\* C4: whenever the current availability is <= 0.5% and the previous start
\* date is at least 90 days before the reference date, the reconciled state
\* is 'Paralizada', whatever the previous state.
C4_ParalizadaForzada ==
    (Consolidado /\ EnAmbos /\ ~ isna(act.disponibilidad)
        /\ 10 * Val(act.disponibilidad) <= 5 * Escala
        /\ ~ isna(prev.f_inci) /\ Transcurridos >= 90) =>
        final.estado_inci = S_Paralizada

\* C5: previous state 'Nueva' with start date D and a critical current
\* bucket: the state is 'Recurrente' iff more than 5 days separate D from
\* the reference date and 'Nueva' otherwise, and D is kept in both cases.
C5_ToleranciaNueva ==
    (Consolidado /\ EnAmbos /\ prev.estado_inci = S_Nueva
        /\ ~ isna(prev.f_inci) /\ Critico(BucketAct)) =>
        /\ final.f_inci = prev.f_inci
        /\ final.estado_inci =
              IF Transcurridos > 5 THEN S_Recurrente ELSE S_Nueva

\* a 'Nueva' incident exactly 5 days old that still fails stays 'Nueva'
C5_Witness ==
    /\ Consolidado /\ EnAmbos
    /\ prev.estado_inci = S_Nueva /\ ~ isna(prev.f_inci)
    /\ Critico(BucketAct)
    /\ Transcurridos = 5
    /\ final.estado_inci = S_Nueva

\* C6 as stated: previous state 'Nueva' or 'Solucionado' with start date D
\* and an ok current bucket gives 'Solucionado' (D kept) when at most 5 days
\* have elapsed and 'Sin incidencia' when more than 5 days have elapsed.
C6_VentanaRecuperacion ==
    (Consolidado /\ EnAmbos /\ prev.estado_inci \in {S_Nueva, S_Solucionado}
        /\ ~ isna(prev.f_inci) /\ Ok(BucketAct)) =>
        IF Transcurridos <= 5
        THEN final.estado_inci = S_Solucionado /\ final.f_inci = prev.f_inci
        ELSE final.estado_inci = S_SinIncidencia

\* C6 amended: with a normal current bucket a previous 'Nueva' with start
\* date D becomes 'Solucionado' keeping D and a previous 'Solucionado'
\* becomes 'Sin incidencia' with the start date cleared, whatever the number
\* of days elapsed since D.
C6_RecuperacionSinVentana ==
    (Consolidado /\ EnAmbos /\ ~ isna(prev.f_inci) /\ BucketAct = B_Normal) =>
        /\ prev.estado_inci = S_Nueva =>
              (final.estado_inci = S_Solucionado /\ final.f_inci = prev.f_inci)
        /\ prev.estado_inci = S_Solucionado =>
              (final.estado_inci = S_SinIncidencia /\ isna(final.f_inci))

\* a 'Nueva' incident 6 days old is solved by a normal period
C6_Witness ==
    /\ Consolidado /\ EnAmbos
    /\ prev.estado_inci = S_Nueva /\ ~ isna(prev.f_inci)
    /\ BucketAct = B_Normal
    /\ Transcurridos = 6
    /\ final.estado_inci = S_Solucionado

\* C7 as stated: previous state 'Recurrente': an ok current bucket gives
\* 'Solucionado', a critical one 'Recurrente'; start date and comment of the
\* previous record are carried over unchanged in both cases.
C7_FilaRecurrente ==
    (Consolidado /\ EnAmbos /\ prev.estado_inci = S_Recurrente) =>
        /\ Ok(BucketAct) => final.estado_inci = S_Solucionado
        /\ Critico(BucketAct) => final.estado_inci = S_Recurrente
        /\ final.f_inci = prev.f_inci
        /\ final.comentario = prev.comentario

\* C7 amended: previous state 'Recurrente': a normal current bucket gives
\* 'Solucionado' and every other bucket (critical or above 100%) gives
\* 'Recurrente'; start date and comment are carried over unchanged.
C7_FilaRecurrenteNormal ==
    (Consolidado /\ EnAmbos /\ prev.estado_inci = S_Recurrente) =>
        /\ final.estado_inci =
              IF BucketAct = B_Normal THEN S_Solucionado ELSE S_Recurrente
        /\ final.f_inci = prev.f_inci
        /\ final.comentario = prev.comentario

\* a commented, dated 'Recurrente' incident is solved by a normal period
C7_Witness ==
    /\ Consolidado /\ EnAmbos
    /\ prev.estado_inci = S_Recurrente
    /\ ~ isna(prev.f_inci) /\ prev.comentario # ComNA
    /\ BucketAct = B_Normal
    /\ final.estado_inci = S_Solucionado

\* the station had no open incident: no previous record, no incident, solved
SinIncidenciaAbierta ==
    \/ ~ prev.presente
    \/ prev.estado_inci \in {EstadoNaN, S_SinIncidencia, S_Solucionado}

\* C8 as stated: a station with no recorded incident or a solved one and a
\* critical current bucket becomes 'Nueva' with the reference date as its
\* start date.
C8_FallaFechada ==
    (Consolidado /\ act.presente /\ SinIncidenciaAbierta /\ Critico(BucketAct)) =>
        (final.estado_inci = S_Nueva /\ final.f_inci = Algo(fecha_ref))

\* C8 amended: such a station becomes 'Nueva' and its start date is left
\* unset.
C8_FallaSinFecha ==
    (Consolidado /\ act.presente /\ SinIncidenciaAbierta /\ Critico(BucketAct)) =>
        (final.estado_inci = S_Nueva /\ isna(final.f_inci))

\* a solved, dated incident fails again
C8_Witness ==
    /\ Consolidado /\ EnAmbos
    /\ prev.estado_inci = S_Solucionado /\ ~ isna(prev.f_inci)
    /\ BucketAct = B_Menos30
    /\ final.estado_inci = S_Nueva

\* C9 as stated: a station found only in the current report is 'Nueva' if
\* its bucket is critical and 'Sin incidencia' otherwise, start date and
\* comment unset.
C9_EstacionNueva ==
    (Consolidado /\ act.presente /\ ~ prev.presente) =>
        /\ final.estado_inci =
              IF Critico(BucketAct) THEN S_Nueva ELSE S_SinIncidencia
        /\ isna(final.f_inci)
        /\ final.comentario = ComNA

\* C9 amended: such a station is 'Sin incidencia' if its bucket is normal
\* and 'Nueva' for every other bucket (critical or above 100%), start date
\* and comment unset.
C9_EstacionNuevaNormal ==
    (Consolidado /\ act.presente /\ ~ prev.presente) =>
        /\ final.estado_inci =
              IF BucketAct = B_Normal THEN S_SinIncidencia ELSE S_Nueva
        /\ isna(final.f_inci)
        /\ final.comentario = ComNA

\* a station new to the roster reports more than 100%
C9_Witness ==
    /\ Consolidado /\ act.presente /\ ~ prev.presente
    /\ BucketAct = B_Mas100
    /\ final.estado_inci = S_Nueva

\* C10: a station found only in the previous report keeps its incident
\* state, start date and comment, for every previous state and reference
\* date; it does not become 'Solucionado' by being absent.
C10_AusenteConserva ==
    (Consolidado /\ prev.presente /\ ~ act.presente) =>
        /\ Enum(final.estado_inci) = Enum(prev.estado_inci)
        /\ final.f_inci = prev.f_inci
        /\ final.comentario = prev.comentario
        /\ final.estado_inci = S_Solucionado => prev.estado_inci = S_Solucionado

\* an absent station with an open, dated and commented incident
C10_Witness ==
    /\ Consolidado /\ prev.presente /\ ~ act.presente
    /\ prev.estado_inci = S_Recurrente
    /\ ~ isna(prev.f_inci) /\ prev.comentario # ComNA
    /\ final.estado_inci = S_Recurrente

----------------------------------------------------------------------------
(* Reconciler: steady state, buckets, unknown states, missing dates *)

\* the three reconciled fields of the consolidated row
Reconciliado ==
    [estado_inci |-> final.estado_inci, f_inci |-> final.f_inci,
     comentario |-> final.comentario]

\* the reconciliation of the same station had its previous record been p
\* and its current record a
Reconciliar(p, a) == determinar_estado(merged(p, a), fecha_ref)

C11_Paso ==
    (Consolidado /\ EnAmbos /\ Enum(prev.estado_inci) = S_SinIncidencia
        /\ BucketAct = B_Normal) =>
        (final.estado_inci = S_SinIncidencia /\ isna(final.f_inci))

C11_Realimenta ==
    (Consolidado /\ pc' = "inicio") =>
        /\ prev'.presente
        /\ prev'.estado_inci = final.estado_inci
        /\ prev'.f_inci = final.f_inci

\* C11: a station without incident and with a normal bucket is reconciled
\* to 'Sin incidencia' with no start date, for any reference date, and the
\* record fed back to the next period is that same record, so that the
\* result repeats for any number of periods.
C11_SinIncidenciaEstable == [] C11_Paso /\ [][C11_Realimenta]_vars

\* the steady state is reconciled a second time
C11_Witness ==
    /\ Consolidado /\ EnAmbos /\ periodo = 2
    /\ prev.estado_inci = S_SinIncidencia /\ isna(prev.f_inci)
    /\ BucketAct = B_Normal
    /\ final.estado_inci = S_SinIncidencia

\* C12 as stated: a current bucket above 100% counts as ok exactly like
\* 'Normal': it never opens an incident nor keeps one in Nueva/Recurrente.
C12_ExcesoEsOk ==
    (Consolidado /\ act.presente /\ BucketAct = B_Mas100) =>
        /\ final.estado_inci \notin {S_Nueva, S_Recurrente}
        /\ Reconciliado =
              Reconciliar(prev, [act EXCEPT !.disponibilidad = Algo(90 * Escala)])

\* C12 amended: a current bucket above 100% counts as an incidence exactly
\* like 'No recibido' and the two shortage buckets: the station is left in
\* Nueva or Recurrente; only 'Normal' counts as ok.
C12_ExcesoEsIncidencia ==
    (Consolidado /\ act.presente /\ BucketAct = B_Mas100) =>
        /\ final.estado_inci \in {S_Nueva, S_Recurrente}
        /\ \A d \in {0, 15 * Escala, 50 * Escala} :
              Reconciliado =
                Reconciliar(prev, [act EXCEPT !.disponibilidad = Algo(d)])

\* a station without incident reports 100.01% and gets a new incident
C12_Witness ==
    /\ Consolidado /\ EnAmbos
    /\ prev.estado_inci = S_SinIncidencia
    /\ act.disponibilidad = Algo(10001)
    /\ final.estado_inci = S_Nueva

\* C13: in every consolidated row the bucket var_disp is the bucket of that
\* row's disponibilidad.
C13_CubetaDerivada ==
    Consolidado => final.var_disp = clasificar_var_disp_num(final.disponibilidad)

\* C14 as stated: a reconciled record with bucket 'Normal' and no start date
\* is 'Sin incidencia'.
C14_NormalSinFecha ==
    (Consolidado /\ final.var_disp = B_Normal /\ isna(final.f_inci)) =>
        final.estado_inci = S_SinIncidencia

\* C14 amended: for a station of the current report with bucket 'Normal' the
\* state is 'Solucionado' if the previous state was Nueva or Recurrente (the
\* previous start date, set or not, is kept) and otherwise 'Sin incidencia'
\* with no start date; a station absent from the current report keeps its
\* previous state whatever its bucket.
C14_NormalSolucionaOCierra ==
    /\ (Consolidado /\ act.presente /\ final.var_disp = B_Normal) =>
          IF prev.presente /\ prev.estado_inci \in {S_Nueva, S_Recurrente}
          THEN final.estado_inci = S_Solucionado /\ final.f_inci = prev.f_inci
          ELSE final.estado_inci = S_SinIncidencia /\ isna(final.f_inci)
    /\ (Consolidado /\ ~ act.presente) =>
          Enum(final.estado_inci) = Enum(prev.estado_inci)

\* an undated new incident is solved by a normal period
C14_Witness ==
    /\ Consolidado /\ EnAmbos
    /\ prev.estado_inci = S_Nueva /\ isna(prev.f_inci)
    /\ final.var_disp = B_Normal
    /\ final.estado_inci = S_Solucionado /\ isna(final.f_inci)

\* the incident states the claim lists as known
EstadosConocidos ==
    {S_SinIncidencia, S_Nueva, S_Recurrente, S_Solucionado, S_Paralizada}

EstadoDesconocido ==
    prev.estado_inci \notin EstadosConocidos \cup {EstadoNaN}

\* C15 as stated: a previous state outside the known set is handled as
\* 'Sin incidencia' would be: ok bucket -> 'Sin incidencia', critical bucket
\* -> 'Nueva'.
C15_DesconocidoComoSinIncidencia ==
    (Consolidado /\ EnAmbos /\ EstadoDesconocido) =>
        /\ Reconciliado =
              Reconciliar([prev EXCEPT !.estado_inci = S_SinIncidencia], act)
        /\ Ok(BucketAct) => final.estado_inci = S_SinIncidencia
        /\ Critico(BucketAct) => final.estado_inci = S_Nueva

\* C15 amended: a previous state outside the known set is handled as
\* 'Sin incidencia' would be: normal bucket -> 'Sin incidencia', every other
\* bucket (critical or above 100%) -> 'Nueva', start date unset.
C15_DesconocidoNormal ==
    (Consolidado /\ EnAmbos /\ EstadoDesconocido) =>
        /\ Reconciliado =
              Reconciliar([prev EXCEPT !.estado_inci = S_SinIncidencia], act)
        /\ final.estado_inci =
              IF BucketAct = B_Normal THEN S_SinIncidencia ELSE S_Nueva
        /\ isna(final.f_inci)

\* a dated record with an unrecognised state fails in the current period
C15_Witness ==
    /\ Consolidado /\ EnAmbos
    /\ prev.estado_inci = S_Otro /\ ~ isna(prev.f_inci)
    /\ BucketAct = B_Mas30
    /\ final.estado_inci = S_Nueva

\* C16: with no previous start date the state of an open incident that
\* still fails is kept as it is (Recurrente stays, Nueva is not promoted),
\* and the elapsed days of a row without date are None.
C16_SinFechaConserva ==
    /\ (Consolidado /\ EnAmbos /\ isna(prev.f_inci) /\ Critico(BucketAct)
          /\ prev.estado_inci \in {S_Nueva, S_Recurrente}) =>
          final.estado_inci = prev.estado_inci
    /\ (Procesado /\ isna(final.f_inci)) => isna(proc.dias_desde_inci)

----------------------------------------------------------------------------
(* Percentage and bucket of one variable                                   *)
(* (02_calcular_disponibilidad.py, 01_procesamiento.py)                    *)

\* round(n / d, 0) for d > 0: to nearest, ties to the even neighbour
round_entero(n, d) ==
    LET q == n \div d
        r == n % d
    IN  IF 2 * r < d THEN q
        ELSE IF 2 * r > d THEN q + 1
        ELSE IF q % 2 = 0 THEN q ELSE q + 1

\* the counts are cells of the CSV (a number or NaN) or None; the result is in
\* hundredths of a percent, NaN when the float arithmetic yields NaN
calcular_disponibilidad(datos_correctos, datos_esperados) ==
    IF datos_esperados = PyNone
       \/ (datos_esperados # Nada /\ Val(datos_esperados) = 0) THEN Algo(0)
    ELSE IF datos_correctos = Nada \/ datos_esperados = Nada THEN Nada
    ELSE LET c == Val(datos_correctos)
             e == Val(datos_esperados)
         IN  IF e > 0 THEN Algo(round_entero(c * 100 * Escala, e))
             ELSE Algo(round_entero((0 - c) * 100 * Escala, 0 - e))

\* variant: the two shortage labels are exchanged
clasificar_disponibilidad_invertida(disponibilidad) ==
    IF disponibilidad = PyNone
       \/ (disponibilidad # Nada /\ Val(disponibilidad) = 0) THEN B_NoRecibido
    ELSE IF disponibilidad # Nada /\ Val(disponibilidad) > 100 * Escala
    THEN B_Mas100
    ELSE IF disponibilidad # Nada /\ Val(disponibilidad) >= 80 * Escala
    THEN B_Normal
    ELSE IF disponibilidad # Nada /\ Val(disponibilidad) >= 30 * Escala
    THEN B_Menos30
    ELSE B_Mas30

\* 01_procesamiento.py; every comparison with NaN is False, so that NaN falls
\* through to the last else
clasificar_disponibilidad(disponibilidad) ==
    IF disponibilidad = PyNone
       \/ (disponibilidad # Nada /\ Val(disponibilidad) = 0) THEN B_NoRecibido
    ELSE IF disponibilidad # Nada /\ Val(disponibilidad) > 100 * Escala
    THEN B_Mas100
    ELSE IF disponibilidad # Nada /\ Val(disponibilidad) >= 80 * Escala
    THEN B_Normal
    ELSE IF disponibilidad # Nada /\ Val(disponibilidad) >= 30 * Escala
    THEN B_Mas30
    ELSE B_Menos30

\* Datos_flag_C cells of the raw CSV
DatosCorrectos ==
    {Nada, Algo(0), Algo(1), Algo(3), Algo(100), Algo(200), Algo(300),
     Algo(1008)}

\* Datos_esperados cells of the raw CSV, or None
DatosEsperados ==
    {PyNone, Nada, Algo(-7), Algo(0), Algo(1), Algo(7), Algo(32), Algo(200),
     Algo(1008)}

\* one row of the POR VARIABLE sheet before its percentage is computed
InitCalculo ==
    /\ pc = "fila"
    /\ periodo = 1
    /\ fecha_ref = FechaRef0
    /\ prev = PrevAusente
    /\ act \in [Datos_flag_C : DatosCorrectos, Datos_esperados : DatosEsperados]
    /\ final = Nada
    /\ ahora = fecha_ref
    /\ proc = NoProc

\* generar_hoja_variable: the lambda applied to the row
Calcular ==
    /\ pc = "fila"
    /\ final' = calcular_disponibilidad(act.Datos_flag_C, act.Datos_esperados)
    /\ pc' = "calculado"
    /\ UNCHANGED <<periodo, fecha_ref, prev, act, ahora, proc>>

NextCalculo == Calcular

SpecCalculo == InitCalculo /\ [][NextCalculo]_vars

\* percentages handed to the classifiers, in hundredths of a percent
Porcentajes ==
    {PyNone, Nada, Algo(0), Algo(1), Algo(2999), Algo(3000), Algo(7999),
     Algo(8000), Algo(10000), Algo(10001), Algo(15000)}

\* two percentages before they are classified
InitCubeta ==
    /\ pc = "porcentajes"
    /\ periodo = 1
    /\ fecha_ref = FechaRef0
    /\ prev = PrevAusente
    /\ act \in [p1 : Porcentajes, p2 : Porcentajes]
    /\ final = NoFila
    /\ ahora = fecha_ref
    /\ proc = NoProc

\* each percentage classified by 01_procesamiento.py and by 02_postproceso.py
Clasificar ==
    /\ pc = "porcentajes"
    /\ final' = [disp1 |-> clasificar_disponibilidad(act.p1),
                 num1  |-> clasificar_var_disp_num(act.p1),
                 disp2 |-> clasificar_disponibilidad(act.p2),
                 num2  |-> clasificar_var_disp_num(act.p2)]
    /\ pc' = "clasificado"
    /\ UNCHANGED <<periodo, fecha_ref, prev, act, ahora, proc>>

NextCubeta == Clasificar

SpecCubeta == InitCubeta /\ [][NextCubeta]_vars

----------------------------------------------------------------------------
(* Percentage and bucket: division safety, thresholds, monotonicity *)

Nulo(x) == x = Nada \/ x = PyNone

\* C18: calcular_disponibilidad returns 0.0 whenever expected is null or
\* <= 0 and is never null/NaN then; otherwise it returns
\* correct / expected * 100 rounded to 2 decimals, without clamping.
C18_DivisionSegura ==
    pc = "calculado" =>
        IF Nulo(act.Datos_esperados) \/ Val(act.Datos_esperados) <= 0
        THEN final = Algo(0)
        ELSE ~ Nulo(act.Datos_flag_C) =>
                final = Algo(round_entero(
                            Val(act.Datos_flag_C) * 100 * Escala,
                            Val(act.Datos_esperados)))

\* the ordered thresholds of the bucket table
Umbrales(p) ==
    IF Nulo(p) \/ Val(p) = 0 THEN B_NoRecibido
    ELSE IF Val(p) < 30 * Escala THEN B_Menos30
    ELSE IF Val(p) < 80 * Escala THEN B_Mas30
    ELSE IF Val(p) <= 100 * Escala THEN B_Normal
    ELSE B_Mas100

\* C19: both classifiers give, for every input, the bucket of the ordered
\* thresholds; a null/NaN or zero percentage always yields 'not received'.
C19_MismosUmbrales ==
    pc = "clasificado" =>
        /\ final.disp1 = Umbrales(act.p1)
        /\ final.num1 = Umbrales(act.p1)
        /\ final.disp2 = Umbrales(act.p2)
        /\ final.num2 = Umbrales(act.p2)

\* severity rank: not received > severe shortage > shortage > normal
Rango(b) ==
    IF b = B_NoRecibido THEN 3
    ELSE IF b = B_Menos30 THEN 2
    ELSE IF b = B_Mas30 THEN 1
    ELSE 0

EnRango(p) == ~ Nulo(p) /\ Val(p) >= 0 /\ Val(p) <= 100 * Escala

\* C20: for pct1 < pct2, both in [0, 100], the bucket of pct1 is never of a
\* less severe rank than the bucket of pct2, under either classifier.
C20_CubetaMonotona ==
    (/\ pc = "clasificado"
     /\ EnRango(act.p1)
     /\ EnRango(act.p2)
     /\ Val(act.p1) < Val(act.p2))
    => /\ Rango(final.disp1) >= Rango(final.disp2)
       /\ Rango(final.num1) >= Rango(final.num2)

\* 29.99% and 30.00% have been classified into adjacent buckets
C20_Witness ==
    /\ pc = "clasificado"
    /\ act.p1 = Algo(2999)
    /\ act.p2 = Algo(3000)
    /\ final.disp1 = B_Menos30
    /\ final.num1 = B_Menos30
    /\ final.disp2 = B_Mas30
    /\ final.num2 = B_Mas30

----------------------------------------------------------------------------
(* 02_postproceso.py on whole rosters: the POR ESTACION table *)

\* Estacion cell normalised: astype(str).str.strip()
NormEstacion(e) == strip(e)

\* the key the merge compares
Clave(fila) == <<fila.DZ, NormEstacion(fila.Estacion)>>

\* code point order of the characters of a station name
Codigo(c) ==
    IF c = " " THEN 0
    ELSE CHOOSE i \in 1..Len(Mayusculas) : Mayusculas[i] = c

\* Python's s < t on strings
RECURSIVE MenorCadena(_, _)
MenorCadena(s, t) ==
    IF t = <<>> THEN FALSE
    ELSE IF s = <<>> THEN TRUE
    ELSE IF Head(s) # Head(t) THEN Codigo(Head(s)) < Codigo(Head(t))
    ELSE MenorCadena(Tail(s), Tail(t))

\* order of sort_values(by=["DZ", "Estacion"])
MenorClave(k1, k2) ==
    k1[1] < k2[1] \/ (k1[1] = k2[1] /\ MenorCadena(k1[2], k2[2]))

RECURSIVE Concatenar(_)
Concatenar(ss) == IF ss = <<>> THEN <<>> ELSE Head(ss) \o Concatenar(Tail(ss))

\* a merged row with its key columns
ConClave(k, row) ==
    [DZ |-> k[1], Estacion |-> k[2], _merge |-> row._merge,
     disponibilidad_act  |-> row.disponibilidad_act,
     var_disp_act        |-> row.var_disp_act,
     disponibilidad_prev |-> row.disponibilidad_prev,
     var_disp_prev       |-> row.var_disp_prev,
     f_inci              |-> row.f_inci,
     estado_inci         |-> row.estado_inci,
     comentario          |-> row.comentario]

\* variant: a left join, the stations found only in the previous report are
\* not kept
merged_tabla_izquierda(ps, as) ==
    LET Pareja(a) == SelectSeq(ps, LAMBDA p : Clave(p) = Clave(a))
        FilasDe(a) ==
            IF Pareja(a) = <<>>
            THEN <<ConClave(Clave(a), merged(PrevAusente, a))>>
            ELSE [j \in 1..Len(Pareja(a)) |->
                     ConClave(Clave(a), merged(Pareja(a)[j], a))]
    IN  Concatenar([i \in 1..Len(as) |-> FilasDe(as[i])])

\* pd.merge(df_act_proc, df_prev_proc, how="outer", on=["DZ", "Estacion"],
\* indicator=True) of the two prepared tables: every pair of rows with equal
\* keys, then the rows without partner of either side
merged_tabla(ps, as) ==
    LET Pareja(a) == SelectSeq(ps, LAMBDA p : Clave(p) = Clave(a))
        FilasDe(a) ==
            IF Pareja(a) = <<>>
            THEN <<ConClave(Clave(a), merged(PrevAusente, a))>>
            ELSE [j \in 1..Len(Pareja(a)) |->
                     ConClave(Clave(a), merged(Pareja(a)[j], a))]
        Solos == SelectSeq(ps, LAMBDA p :
                     \A i \in 1..Len(as) : Clave(as[i]) # Clave(p))
    IN  Concatenar([i \in 1..Len(as) |-> FilasDe(as[i])])
        \o [j \in 1..Len(Solos) |->
               ConClave(Clave(Solos[j]), merged(Solos[j], ActAusente))]

\* the res_list loop: one output row per merged row
res_list(m, f_ref) ==
    [i \in 1..Len(m) |->
        [DZ |-> m[i].DZ, Estacion |-> NormEstacion(m[i].Estacion),
         fila |-> res(m[i], f_ref)]]

\* stable insertion of a row into a table sorted by key
RECURSIVE Insertar(_, _)
Insertar(fila, t) ==
    IF t = <<>> THEN <<fila>>
    ELSE IF MenorClave(<<fila.DZ, fila.Estacion>>, <<Head(t).DZ, Head(t).Estacion>>)
    THEN <<fila>> \o t
    ELSE <<Head(t)>> \o Insertar(fila, Tail(t))

\* df_final.sort_values(by=["DZ", "Estacion"]).reset_index(drop=True)
RECURSIVE sort_values(_)
sort_values(t) ==
    IF t = <<>> THEN <<>>
    ELSE Insertar(t[Len(t)], sort_values(SubSeq(t, 1, Len(t) - 1)))

\* the (DZ, Estacion) cells of the reports: one per station, and the first
\* station also written with a trailing blank
ClavesHoja ==
    {<<((i - 1) % 2) + 1, <<Mayusculas[i]>> >> : i \in 1..MaxEstaciones}
    \cup {<<1, <<Mayusculas[1], " ">> >>}

\* cells of a row of the previous report, besides its key
CeldasPrev ==
    {[disponibilidad |-> Algo(0), f_inci |-> Algo(FechaRef0 - 6),
      estado_inci |-> S_Nueva, comentario |-> "revisar"],
     [disponibilidad |-> Nada, f_inci |-> Nada,
      estado_inci |-> EstadoNaN, comentario |-> ComNA]}

\* disponibilidad cell of a row of the current report
CeldasAct == {Nada, Algo(9000)}

FilaPrev(k, c) ==
    [DZ |-> k[1], Estacion |-> k[2], presente |-> TRUE,
     disponibilidad |-> c.disponibilidad, f_inci |-> c.f_inci,
     estado_inci |-> c.estado_inci, comentario |-> c.comentario]

FilaAct(k, d) ==
    [DZ |-> k[1], Estacion |-> k[2], presente |-> TRUE, disponibilidad |-> d]

\* the sheets with at most one row per cell pair of ClavesHoja
Hojas(Filas) ==
    UNION {{h \in [1..n -> Filas] :
               \A i, j \in 1..n :
                   i # j => <<h[i].DZ, h[i].Estacion>> # <<h[j].DZ, h[j].Estacion>>}
           : n \in 0..Cardinality(ClavesHoja)}

HojasPrev == Hojas({FilaPrev(k, c) : k \in ClavesHoja, c \in CeldasPrev})

HojasAct == Hojas({FilaAct(k, d) : k \in ClavesHoja, d \in CeldasAct})

InitTabla ==
    /\ pc = "hojas"
    /\ periodo = 1
    /\ fecha_ref = FechaRef0
    /\ prev \in HojasPrev
    /\ act \in HojasAct
    /\ final = <<>>
    /\ ahora = fecha_ref
    /\ proc = NoProc

\* 02_postproceso.py run on the two POR ESTACION sheets
ConsolidarTabla ==
    /\ pc = "hojas"
    /\ final' = sort_values(res_list(merged_tabla(prev, act), fecha_ref))
    /\ pc' = "tabla"
    /\ UNCHANGED <<periodo, fecha_ref, prev, act, ahora, proc>>

NextTabla == ConsolidarTabla

SpecTabla == InitTabla /\ [][NextTabla]_vars

----------------------------------------------------------------------------
(* The union of the rosters *)

Claves(hoja) == {Clave(hoja[i]) : i \in 1..Len(hoja)}

\* no two rows of the sheet are the same station
ClavesUnicas(hoja) ==
    \A i, j \in 1..Len(hoja) : i # j => Clave(hoja[i]) # Clave(hoja[j])

FilasDeClave(k) ==
    {i \in 1..Len(final) : <<final[i].DZ, final[i].Estacion>> = k}

\* C17: with keys unique within each report, the consolidated table has
\* exactly one row for every (DZ, Estacion) key of the previous or of the
\* current report, and no other row.
C17_UnaFilaPorClave ==
    (pc = "tabla" /\ ClavesUnicas(prev) /\ ClavesUnicas(act)) =>
        /\ \A k \in Claves(prev) \cup Claves(act) :
               Cardinality(FilasDeClave(k)) = 1
        /\ \A i \in 1..Len(final) :
               <<final[i].DZ, final[i].Estacion>> \in Claves(prev) \cup Claves(act)

\* a station only in the previous report (its name written with a trailing
\* blank, its cells empty) and another only in the current one are both in
\* the table
C17_Witness ==
    /\ pc = "tabla"
    /\ ClavesUnicas(prev)
    /\ ClavesUnicas(act)
    /\ Len(prev) = 1
    /\ Len(act) = 1
    /\ prev[1].Estacion = <<Mayusculas[1], " ">>
    /\ isna(prev[1].disponibilidad)
    /\ Clave(act[1]) # Clave(prev[1])
    /\ Len(final) = 2
    /\ final[1].fila.fuente = "anterior"
    /\ final[2].fila.fuente = "actual"

----------------------------------------------------------------------------
(* Dashboard: closure suffix, ALTA, dependence on the clock *)

\* C25 as stated: the closure-candidate suffix is part of the justification
\* exactly when the elapsed days are known and >= 730.
C25_ClausuraPorDias ==
    Procesado =>
        (proc.razon_prioridad.clausura
            <=> (~ isna(proc.dias_desde_inci)
                 /\ Val(proc.dias_desde_inci) >= 730))

\* C25 amended: the suffix is part of the justification exactly when the
\* priority is BAJA and the elapsed days are known and >= 730; the
\* justification of every other priority never carries it.
C25_ClausuraSoloBaja ==
    Procesado =>
        (proc.razon_prioridad.clausura
            <=> (/\ proc.prioridad = "BAJA"
                 /\ ~ isna(proc.dias_desde_inci)
                 /\ Val(proc.dias_desde_inci) >= 730))

\* a paralysed station of more than two years carries the suffix
C25_Witness ==
    /\ Procesado
    /\ proc.prioridad = "BAJA"
    /\ ~ isna(proc.dias_desde_inci)
    /\ Val(proc.dias_desde_inci) >= 730
    /\ proc.razon_prioridad.plantilla = "Paralizada"
    /\ proc.razon_prioridad.clausura

\* C26: whenever the priority is ALTA the elapsed days are <= 30 (or
\* unknown) and the availability is below the critical threshold of 80
\* (an empty availability cell is not counted against the claim).
C26_AltaRecienteCritica ==
    (Procesado /\ proc.prioridad = "ALTA") =>
        /\ (isna(proc.dias_desde_inci) \/ Val(proc.dias_desde_inci) <= 30)
        /\ (isna(final.disponibilidad)
            \/ Val(final.disponibilidad) < 80 * Escala)

\* the sheet processed at the moment fecha_ref + r
EnOtroMomento(r) == procesar_estaciones(final, fecha_ref + r)

\* C29 as stated: processing the same sheet at two different moments yields
\* the same dias_desde_inci and the same prioridad.
C29_SinReloj ==
    Procesado =>
        \A r \in 0..MaxRetraso :
            /\ EnOtroMomento(r).dias_desde_inci = proc.dias_desde_inci
            /\ EnOtroMomento(r).prioridad = proc.prioridad

\* C29 amended: a row without start date gets the same dias_desde_inci
\* (none) and the same prioridad at every moment; a row with a start date
\* gets the days between that date and the clock, so that processing it
\* r days later yields r more days.
C29_RelojSoloConFecha ==
    Procesado =>
        \A r \in 0..MaxRetraso :
            IF isna(final.f_inci)
            THEN /\ isna(proc.dias_desde_inci)
                 /\ EnOtroMomento(r).dias_desde_inci = proc.dias_desde_inci
                 /\ EnOtroMomento(r).prioridad = proc.prioridad
            ELSE /\ proc.dias_desde_inci = Algo(ahora - Val(final.f_inci))
                 /\ EnOtroMomento(r).dias_desde_inci
                        = Algo(Val(proc.dias_desde_inci) + fecha_ref + r - ahora)

\* a row dated 30 days before the reference date, processed one day later:
\* it is 31 days old and no longer ALTA
C29_Witness ==
    /\ Procesado
    /\ ahora = fecha_ref + 1
    /\ final.estado_inci = S_Nueva
    /\ final.f_inci = Algo(fecha_ref - 30)
    /\ final.disponibilidad = Algo(50)
    /\ proc.dias_desde_inci = Algo(31)
    /\ proc.prioridad = "MEDIA"
    /\ EnOtroMomento(0).prioridad = "ALTA"

----------------------------------------------------------------------------
(* Reconciler over the periods: tolerance window, recovery *)

\* an incident has been opened as 'Nueva' in the current period
Abierta ==
    /\ Consolidado
    /\ final.estado_inci = S_Nueva
    /\ ~ (prev.presente /\ prev.estado_inci = S_Nueva)

\* the state the next period gives to the record fed back
EstadoSiguiente ==
    determinar_estado(merged(prev', act'), fecha_ref').estado_inci

C27_Paso ==
    (Abierta /\ pc' = "inicio" /\ EstadoSiguiente = S_Recurrente) =>
        fecha_ref' - fecha_ref > TOLERANCIA_DIAS

\* C27: with the output fed back unchanged, an incident opened as 'Nueva'
\* becomes 'Recurrente' only in a period whose reference date is more than
\* 5 days after the reference date of the period that opened it.
C27_RecurrenteTrasTolerancia == [][C27_Paso]_vars

\* the station is in the current report with a normal bucket
NormalActual == act.presente /\ BucketAct = B_Normal

Cerrada ==
    Consolidado /\ final.estado_inci = S_SinIncidencia /\ isna(final.f_inci)

\* C28: if the station is reported with a normal bucket in every period,
\* then after finitely many periods its state is 'Sin incidencia' with no
\* start date, and it stays so.
C28_RecuperacionCierra == ([] NormalActual) => <>[] Cerrada

\* an incident solved in the first period is closed in the second
C28_Witness ==
    /\ Consolidado /\ periodo = 2 /\ NormalActual
    /\ prev.estado_inci = S_Solucionado
    /\ ~ isna(prev.f_inci)
    /\ final.estado_inci = S_SinIncidencia
    /\ isna(final.f_inci)

----------------------------------------------------------------------------
(* Roll-ups of one station: POR VARIABLE -> POR EQUIPAMIENTO -> POR ESTACION *)
(* (01_procesamiento.py, 02_calcular_disponibilidad.py)                      *)

\* DataProcessor.normalizar_disponibilidad, in hundredths of a percent
normalizar_disponibilidad(valor) ==
    IF isna(valor) THEN 0
    ELSE IF Val(valor) < THRESHOLD_ANOMALY THEN Val(valor)
    ELSE THRESHOLD_ANOMALY

\* a float that is not a whole number of hundredths: num / den hundredths
Fraccion(n, d) == [num |-> n, den |-> d]

RSuma(a, b) == Fraccion(a.num * b.den + b.num * a.den, a.den * b.den)

Redondeo(r) == round_entero(r.num, r.den)

RECURSIVE SumaSeq(_)
SumaSeq(xs) == IF xs = <<>> THEN 0 ELSE Head(xs) + SumaSeq(Tail(xs))

\* the Sensor values of the rows, as groupby finds them
Sensores(vs) == {vs[i].Sensor : i \in 1..Len(vs)}

DeSensor(vs, s) == SelectSeq(vs, LAMBDA v : v.Sensor = s)

\* 01_procesamiento.py: disponibilidad of a variable
disponibilidad_variable(v) ==
    round_entero(v.Datos_flag_C * 100 * Escala, v.Datos_esperados)

\* 01_procesamiento.py: groupby([DZ, Estacion, Sensor]) mean of disponibilidad
disponibilidad_equipamiento(vs) ==
    [s \in Sensores(vs) |->
        LET g == DeSensor(vs, s)
        IN  Fraccion(SumaSeq([i \in 1..Len(g) |-> disponibilidad_variable(g[i])]),
                     Len(g))]

\* 01_procesamiento.py: groupby([DZ, Estacion]) round(mean, 2) of the
\* disponibilidad of the variables
disponibilidad_estacion(vs) ==
    round_entero(SumaSeq([i \in 1..Len(vs) |-> disponibilidad_variable(vs[i])]),
                 Len(vs))

\* 02_calcular_disponibilidad.py: sums of the counts of the sensor
generar_hoja_equipamiento(vs) ==
    [s \in Sensores(vs) |->
        LET g == DeSensor(vs, s)
        IN  calcular_disponibilidad(
                Algo(SumaSeq([i \in 1..Len(g) |-> g[i].Datos_flag_C])),
                Algo(SumaSeq([i \in 1..Len(g) |-> g[i].Datos_esperados])))]

\* 02_calcular_disponibilidad.py: sums of the counts of the station
generar_hoja_estacion(vs) ==
    calcular_disponibilidad(
        Algo(SumaSeq([i \in 1..Len(vs) |-> vs[i].Datos_flag_C])),
        Algo(SumaSeq([i \in 1..Len(vs) |-> vs[i].Datos_esperados])))

\* rows of the raw table of one station: sensor, correct and expected counts
FilasVariable ==
    [Sensor : {1, 2}, Datos_flag_C : {0, 50, 300}, Datos_esperados : {100, 200}]

\* number of variables of the station
NumVariables == 3

InitAgregado ==
    /\ pc = "variables"
    /\ periodo = 1
    /\ fecha_ref = FechaRef0
    /\ prev = PrevAusente
    /\ act \in [1..NumVariables -> FilasVariable]
    /\ final = NoFila
    /\ ahora = fecha_ref
    /\ proc = NoProc

\* 01_procesamiento.py: the three tables
Procesamiento ==
    /\ pc = "variables"
    /\ final' =
          [variable     |-> [i \in 1..Len(act) |-> disponibilidad_variable(act[i])],
           equipamiento |-> disponibilidad_equipamiento(act),
           estacion     |-> disponibilidad_estacion(act)]
    /\ pc' = "procesamiento"
    /\ UNCHANGED <<periodo, fecha_ref, prev, act, ahora, proc>>

\* 02_calcular_disponibilidad.py: the three sheets
GenerarHojas ==
    /\ pc = "variables"
    /\ final' =
          [variable     |-> [i \in 1..Len(act) |->
                                Val(calcular_disponibilidad(
                                        Algo(act[i].Datos_flag_C),
                                        Algo(act[i].Datos_esperados)))],
           equipamiento |-> [s \in Sensores(act) |->
                                Fraccion(Val(generar_hoja_equipamiento(act)[s]), 1)],
           estacion     |-> Val(generar_hoja_estacion(act))]
    /\ pc' = "hojas generadas"
    /\ UNCHANGED <<periodo, fecha_ref, prev, act, ahora, proc>>

NextAgregado == Procesamiento \/ GenerarHojas

SpecAgregado == InitAgregado /\ [][NextAgregado]_vars

----------------------------------------------------------------------------
(* Roll-ups as grouped means *)

Agregado == pc \in {"procesamiento", "hojas generadas"}

\* mean of the normalised availabilities of the variables of sensor s
MediaVariables(s) ==
    LET idx == {i \in 1..Len(act) : act[i].Sensor = s}
        RECURSIVE Suma(_)
        Suma(S) == IF S = {} THEN 0
                   ELSE LET i == CHOOSE i \in S : TRUE
                        IN  normalizar_disponibilidad(Algo(final.variable[i]))
                            + Suma(S \ {i})
    IN  Fraccion(Suma(idx), Cardinality(idx))

\* mean of those means over the sensors of the station
MediaSensores ==
    LET RECURSIVE Suma(_)
        Suma(S) == IF S = {} THEN Fraccion(0, 1)
                   ELSE LET s == CHOOSE s \in S : TRUE
                        IN  RSuma(MediaVariables(s), Suma(S \ {s}))
        t == Suma(Sensores(act))
    IN  Fraccion(t.num, t.den * Cardinality(Sensores(act)))

\* C21: the availability of a sensor is the mean of the normalised
\* availabilities of its variables and the availability of the station is
\* the mean of the availabilities of its sensors (compared to 2 decimals).
C21_MediaNormalizada ==
    Agregado =>
        /\ \A s \in Sensores(act) :
               Redondeo(final.equipamiento[s]) = Redondeo(MediaVariables(s))
        /\ final.estacion = Redondeo(MediaSensores)

----------------------------------------------------------------------------
(* Dashboard: hidden problems and configuration anomalies                  *)
(* (DataProcessor.detectar_problemas_ocultos / detectar_anomalias_...)     *)

\* procesar_estaciones / procesar_sensores / procesar_variables: the column
\* disponibilidad_norm added to every row of a sheet
con_norm(t) ==
    [i \in 1..Len(t) |->
        [fila |-> t[i],
         disponibilidad_norm |-> normalizar_disponibilidad(t[i].disponibilidad)]]

umbral == THRESHOLD_CRITICAL

\* gap, in hundredths of a point, from which a hidden problem is significant
BRECHA_SIGNIFICATIVA == 30 * Escala

FilaOculta(dz, est, sen, ref, disp_est, nivel, nombre, item) ==
    [DZ |-> dz, Estacion |-> est, Sensor |-> sen,
     disponibilidad_referencia |-> ref, disponibilidad_estacion |-> disp_est,
     nivel |-> nivel, nombre |-> nombre, disponibilidad_item |-> item,
     brecha |-> ref - item,
     es_significativa |-> (ref - item >= BRECHA_SIGNIFICATIVA)]

\* type 1: est_ok.merge(sens_criticos, on=[DZ, Estacion], how='inner')
sensores_ocultos(sens, ests) ==
    {FilaOculta(e.fila.DZ, e.fila.Estacion, x.fila.Sensor,
                e.disponibilidad_norm, e.disponibilidad_norm,
                "Sensor", <<x.fila.Sensor>>, x.disponibilidad_norm) :
        <<e, x>> \in
            {<<e, x>> \in {ests[i] : i \in 1..Len(ests)}
                          \X {sens[i] : i \in 1..Len(sens)} :
                /\ e.disponibilidad_norm >= umbral
                /\ x.disponibilidad_norm <= THRESHOLD_ANOMALY
                /\ x.disponibilidad_norm < umbral
                /\ e.fila.DZ = x.fila.DZ
                /\ e.fila.Estacion = x.fila.Estacion}}

\* disponibilidad_estacion of a Variable row: left merge with est_base, then
\* fillna(0)
de_estacion(ests, dz, est) ==
    LET m == {i \in 1..Len(ests) :
                 ests[i].fila.DZ = dz /\ ests[i].fila.Estacion = est}
    IN  IF m = {} THEN 0 ELSE ests[CHOOSE i \in m : TRUE].disponibilidad_norm

\* variant: the variables of every sensor are compared, also those of a
\* sensor below the threshold
variables_ocultas_todo_sensor(vars_, sens, ests) ==
    {FilaOculta(x.fila.DZ, x.fila.Estacion, x.fila.Sensor,
                x.disponibilidad_norm,
                de_estacion(ests, x.fila.DZ, x.fila.Estacion),
                "Variable", <<v.fila.Variable, v.fila.Frecuencia>>,
                v.disponibilidad_norm) :
        <<x, v>> \in
            {<<x, v>> \in {sens[i] : i \in 1..Len(sens)}
                          \X {vars_[i] : i \in 1..Len(vars_)} :
                /\ x.disponibilidad_norm <= THRESHOLD_ANOMALY
                /\ v.disponibilidad_norm <= THRESHOLD_ANOMALY
                /\ v.disponibilidad_norm < umbral
                /\ x.fila.DZ = v.fila.DZ
                /\ x.fila.Estacion = v.fila.Estacion
                /\ x.fila.Sensor = v.fila.Sensor}}

\* type 2: sens_ok.merge(var_criticas, on=[DZ, Estacion, Sensor], how='inner')
variables_ocultas(vars_, sens, ests) ==
    {FilaOculta(x.fila.DZ, x.fila.Estacion, x.fila.Sensor,
                x.disponibilidad_norm,
                de_estacion(ests, x.fila.DZ, x.fila.Estacion),
                "Variable", <<v.fila.Variable, v.fila.Frecuencia>>,
                v.disponibilidad_norm) :
        <<x, v>> \in
            {<<x, v>> \in {sens[i] : i \in 1..Len(sens)}
                          \X {vars_[i] : i \in 1..Len(vars_)} :
                /\ x.disponibilidad_norm <= THRESHOLD_ANOMALY
                /\ x.disponibilidad_norm >= umbral
                /\ v.disponibilidad_norm <= THRESHOLD_ANOMALY
                /\ v.disponibilidad_norm < umbral
                /\ x.fila.DZ = v.fila.DZ
                /\ x.fila.Estacion = v.fila.Estacion
                /\ x.fila.Sensor = v.fila.Sensor}}

\* the rows of the returned frame, before they are sorted
detectar_problemas_ocultos(df_variables, df_sensores, df_estaciones) ==
    sensores_ocultos(df_sensores, df_estaciones)
    \cup variables_ocultas(df_variables, df_sensores, df_estaciones)

\* variant: an item at exactly 100% is an anomaly too
Anomalo_desde_100(d) == ~ isna(d) /\ Val(d) >= THRESHOLD_ANOMALY

\* df['disponibilidad'] > 100.0
Anomalo(d) == ~ isna(d) /\ Val(d) > THRESHOLD_ANOMALY

FilaAnomala(f, nivel, nombre) ==
    [DZ |-> f.DZ, Estacion |-> f.Estacion, Sensor |-> f.Sensor,
     nivel |-> nivel, nombre |-> nombre,
     disponibilidad_item |-> Val(f.disponibilidad),
     exceso |-> Val(f.disponibilidad) - THRESHOLD_ANOMALY]

\* the rows of the returned frame, before they are sorted
detectar_anomalias_configuracion(df_variables, df_sensores) ==
    {FilaAnomala(x.fila, "Sensor", <<x.fila.Sensor>>) :
        x \in {y \in {df_sensores[i] : i \in 1..Len(df_sensores)} :
                  Anomalo(y.fila.disponibilidad)}}
    \cup
    {FilaAnomala(v.fila, "Variable", <<v.fila.Variable, v.fila.Frecuencia>>) :
        v \in {y \in {df_variables[i] : i \in 1..Len(df_variables)} :
                  Anomalo(y.fila.disponibilidad)}}

\* the frames sort_values can return for the rows S: every order in which no
\* row comes before one that the sort key puts first
Ordenes(S, Antes(_, _)) ==
    {q \in [1..Cardinality(S) -> S] :
        /\ \A i, j \in 1..Cardinality(S) : i # j => q[i] # q[j]
        /\ \A i, j \in 1..Cardinality(S) : i < j => ~ Antes(q[j], q[i])}

\* sort_values('brecha', ascending=False)
AntesOculta(a, b) == a.brecha > b.brecha

\* sort_values(['DZ', 'Estacion', 'exceso'], ascending=[True, True, False])
AntesAnomala(a, b) ==
    \/ a.DZ < b.DZ
    \/ a.DZ = b.DZ /\ a.Estacion < b.Estacion
    \/ a.DZ = b.DZ /\ a.Estacion = b.Estacion /\ a.exceso > b.exceso

\* disponibilidad cells of the three sheets, in hundredths of a percent
DispEstacion == {Algo(7999), Algo(9200)}

DispSensor ==
    {Nada, Algo(4500), Algo(6200), Algo(8000), Algo(10000), Algo(12000)}

DispVariable ==
    {Algo(0), Algo(5000), Algo(7999), Algo(8000), Algo(10000),
     calcular_disponibilidad(Algo(300), Algo(200))}

\* POR ESTACION: two stations, the second one operative
HojasEstacion ==
    {<<[DZ |-> 1, Estacion |-> 1, disponibilidad |-> d],
       [DZ |-> 2, Estacion |-> 2, disponibilidad |-> Algo(9200)]>> :
        d \in DispEstacion}

\* POR EQUIPAMIENTO: two sensors with different (DZ, Estacion, Sensor)
HojasEquipamiento ==
    {<<[DZ |-> 1, Estacion |-> 1, Sensor |-> 1, disponibilidad |-> d1],
       [DZ |-> k[1], Estacion |-> k[1], Sensor |-> k[2], disponibilidad |-> d2]>> :
        d1 \in DispSensor, d2 \in DispSensor,
        k \in {<<1, 2>>, <<2, 1>>, <<2, 2>>}}

\* POR VARIABLE: two variables, the second one of any sensor
HojasVariable ==
    {<<[DZ |-> 1, Estacion |-> 1, Sensor |-> 1, Variable |-> 1,
        Frecuencia |-> "horario", disponibilidad |-> d1],
       [DZ |-> k[1], Estacion |-> k[1], Sensor |-> k[2], Variable |-> 2,
        Frecuencia |-> "horario", disponibilidad |-> d2]>> :
        d1 \in DispVariable, d2 \in DispVariable,
        k \in {<<1, 1>>, <<1, 2>>, <<2, 1>>, <<2, 2>>}}

InitJerarquia ==
    /\ pc = "cargado"
    /\ periodo = 1
    /\ fecha_ref = FechaRef0
    /\ prev = PrevAusente
    /\ act \in [estaciones : HojasEstacion, sensores : HojasEquipamiento,
                variables : HojasVariable]
    /\ final = <<>>
    /\ ahora = fecha_ref
    /\ proc = NoProc

\* the hidden-problems view
DetectarOcultos ==
    /\ pc = "cargado"
    /\ final' \in Ordenes(detectar_problemas_ocultos(con_norm(act.variables),
                                                     con_norm(act.sensores),
                                                     con_norm(act.estaciones)),
                          AntesOculta)
    /\ pc' = "ocultos"
    /\ UNCHANGED <<periodo, fecha_ref, prev, act, ahora, proc>>

\* the configuration-anomalies view
DetectarAnomalias ==
    /\ pc = "cargado"
    /\ final' \in Ordenes(detectar_anomalias_configuracion(con_norm(act.variables),
                                                           con_norm(act.sensores)),
                          AntesAnomala)
    /\ pc' = "anomalias"
    /\ UNCHANGED <<periodo, fecha_ref, prev, act, ahora, proc>>

NextJerarquia == DetectarOcultos \/ DetectarAnomalias

SpecJerarquia == InitJerarquia /\ [][NextJerarquia]_vars

----------------------------------------------------------------------------
(* Hidden problems and anomalies: what is reported *)

Norm(f) == normalizar_disponibilidad(f.disponibilidad)

Filas(t) == {t[i] : i \in 1..Len(t)}

Reportadas == {final[i] : i \in 1..Len(final)}

\* the station row of a sensor or variable row
EstacionDe(f) ==
    {e \in Filas(act.estaciones) : e.DZ = f.DZ /\ e.Estacion = f.Estacion}

\* the sensor row of a variable row
SensorDe(v) ==
    {x \in Filas(act.sensores) :
        x.DZ = v.DZ /\ x.Estacion = v.Estacion /\ x.Sensor = v.Sensor}

\* (a) sensors below the threshold inside a station at or above it
SensoresOcultos ==
    {<<x, e>> \in Filas(act.sensores) \X Filas(act.estaciones) :
        e \in EstacionDe(x) /\ Norm(x) < 80 * Escala /\ Norm(e) >= 80 * Escala}

\* (b) variables below the threshold inside a sensor at or above it
VariablesOcultas ==
    {<<v, x>> \in Filas(act.variables) \X Filas(act.sensores) :
        x \in SensorDe(v) /\ Norm(v) < 80 * Escala /\ Norm(x) >= 80 * Escala}

FilaDeSensor(r, x, e) ==
    /\ r.nivel = "Sensor"
    /\ <<r.DZ, r.Estacion, r.Sensor>> = <<x.DZ, x.Estacion, x.Sensor>>
    /\ r.disponibilidad_item = Norm(x)
    /\ r.disponibilidad_referencia = Norm(e)

FilaDeVariable(r, v, x) ==
    /\ r.nivel = "Variable"
    /\ <<r.DZ, r.Estacion, r.Sensor>> = <<v.DZ, v.Estacion, v.Sensor>>
    /\ r.nombre[1] = v.Variable
    /\ r.disponibilidad_item = Norm(v)
    /\ r.disponibilidad_referencia = Norm(x)

ItemsCrudos ==
    {[nivel |-> "Sensor", nombre |-> <<x.Sensor>>, fila |-> x] :
        x \in Filas(act.sensores)}
    \cup {[nivel |-> "Variable", nombre |-> <<v.Variable, v.Frecuencia>>, fila |-> v] :
        v \in Filas(act.variables)}

FilaDeItem(r, it) ==
    /\ r.nivel = it.nivel
    /\ r.nombre = it.nombre
    /\ <<r.DZ, r.Estacion, r.Sensor>> = <<it.fila.DZ, it.fila.Estacion, it.fila.Sensor>>

\* C23: a sensor or variable is reported if and only if its raw availability
\* is strictly above 100, with excess = availability - 100 > 0; a variable
\* with 300 correct of 200 expected is reported with excess 50.
C23_AnomaliasSobre100 ==
    pc = "anomalias" =>
        /\ Len(final) = Cardinality(Reportadas)
        /\ \A it \in ItemsCrudos :
               (\E r \in Reportadas : FilaDeItem(r, it))
                   <=> (~ isna(it.fila.disponibilidad)
                        /\ Val(it.fila.disponibilidad) > 100 * Escala)
        /\ \A r \in Reportadas :
               /\ \E it \in ItemsCrudos :
                      /\ FilaDeItem(r, it)
                      /\ r.disponibilidad_item = Val(it.fila.disponibilidad)
               /\ r.exceso = r.disponibilidad_item - 100 * Escala
               /\ r.exceso > 0
        /\ \A v \in Filas(act.variables) :
               v.disponibilidad = calcular_disponibilidad(Algo(300), Algo(200)) =>
                   \E r \in Reportadas :
                       /\ r.nivel = "Variable"
                       /\ r.nombre[1] = v.Variable
                       /\ r.exceso = 50 * Escala

\* a variable at 150% is reported with excess 50 while a sensor at exactly
\* 100% is not
C23_Witness ==
    /\ pc = "anomalias"
    /\ act.variables[1].disponibilidad = Algo(150 * Escala)
    /\ act.sensores[1].disponibilidad = Algo(100 * Escala)
    /\ \E i \in 1..Len(final) :
          /\ final[i].nivel = "Variable"
          /\ final[i].nombre[1] = 1
          /\ final[i].exceso = 50 * Escala
    /\ \A i \in 1..Len(final) :
          ~ (final[i].nivel = "Sensor" /\ final[i].Sensor = 1 /\ final[i].Estacion = 1)

----------------------------------------------------------------------------
(* Dashboard: loading a workbook (ExcelFileHandler.cargar_excel)           *)

\* the column names of the sheets, as strings
Columna ==
    [DZ |-> <<"D","Z">>,
     Estacion |-> <<"E","s","t","a","c","i","o","n">>,
     Sensor |-> <<"S","e","n","s","o","r">>,
     Variable |-> <<"V","a","r","i","a","b","l","e">>,
     Frecuencia |-> <<"F","r","e","c","u","e","n","c","i","a">>,
     disponibilidad |-> <<"d","i","s","p","o","n","i","b","i","l","i","d","a","d">>,
     var_disp |-> <<"v","a","r","_","d","i","s","p">>,
     f_inci |-> <<"f","_","i","n","c","i">>,
     estado_inci |-> <<"e","s","t","a","d","o","_","i","n","c","i">>,
     Comentario |-> <<"C","o","m","e","n","t","a","r","i","o">>,
     Datos_flag_C |-> <<"D","a","t","o","s","_","f","l","a","g","_","C">>,
     Datos_flag_M |-> <<"D","a","t","o","s","_","f","l","a","g","_","M">>,
     Datos_esperados |-> <<"D","a","t","o","s","_","e","s","p","e","r","a","d","o","s">>]

SHEET_ESTACIONES == "POR ESTACION"

SHEET_SENSORES == "POR EQUIPAMIENTO"

SHEET_VARIABLES == "POR VARIABLE"

\* the sheets in the order cargar_excel validates them
HOJAS == <<SHEET_ESTACIONES, SHEET_SENSORES, SHEET_VARIABLES>>

\* config.REQUIRED_COLUMNS
REQUIRED_COLUMNS ==
    [h \in {SHEET_ESTACIONES, SHEET_SENSORES, SHEET_VARIABLES} |->
        IF h = SHEET_ESTACIONES THEN
            {Columna.DZ, Columna.Estacion, Columna.disponibilidad, Columna.var_disp,
             Columna.f_inci, Columna.estado_inci, Columna.Comentario}
        ELSE IF h = SHEET_SENSORES THEN
            {Columna.DZ, Columna.Estacion, Columna.Sensor, Columna.disponibilidad, Columna.var_disp}
        ELSE
            {Columna.DZ, Columna.Estacion, Columna.Sensor, Columna.Variable, Columna.Frecuencia,
             Columna.disponibilidad, Columna.var_disp, Columna.Datos_flag_C,
             Columna.Datos_flag_M, Columna.Datos_esperados}]

\* mapeo_columnas of normalizar_nombres_columnas: lower-case name, canonical name
mapeo_columnas ==
    {<<lower(Columna.Comentario), Columna.Comentario>>,
     <<lower(Columna.Estacion), Columna.Estacion>>,
     <<lower(Columna.Sensor), Columna.Sensor>>,
     <<lower(Columna.Frecuencia), Columna.Frecuencia>>,
     <<lower(Columna.DZ), Columna.DZ>>}

\* the columns of the frame after the rename
normalizar_nombres_columnas(columnas) ==
    {IF \E m \in mapeo_columnas : m[1] = lower(c)
     THEN (CHOOSE m \in mapeo_columnas : m[1] = lower(c))[2]
     ELSE c : c \in columnas}

\* variant: the required names are compared as written
validar_columnas_exacta(columnas, columnas_requeridas) ==
    {r \in columnas_requeridas : r \notin columnas}

\* columnas_faltantes, by their required names; the error is raised when the
\* set is not empty
validar_columnas(columnas, columnas_requeridas) ==
    LET columnas_df_lower == {lower(c) : c \in columnas}
    IN  {r \in columnas_requeridas : lower(r) \notin columnas_df_lower}

\* the columns the processors index by name, df['...']
INDEXADAS ==
    [h \in {SHEET_ESTACIONES, SHEET_SENSORES, SHEET_VARIABLES} |->
        IF h = SHEET_ESTACIONES THEN {Columna.f_inci, Columna.disponibilidad}
        ELSE IF h = SHEET_SENSORES THEN {Columna.disponibilidad}
        ELSE {Columna.Datos_flag_C, Columna.Datos_flag_M, Columna.Datos_esperados,
              Columna.disponibilidad}]

\* largest number of headers of the workbook that are not written as required
MaxDesvios == 1

upper_char(c) ==
    IF \E i \in 1..Len(Minusculas) : Minusculas[i] = c
    THEN Mayusculas[CHOOSE i \in 1..Len(Minusculas) : Minusculas[i] = c]
    ELSE c

\* a header typed in capitals
upper(s) == [i \in 1..Len(s) |-> upper_char(s[i])]

\* a header of the workbook that differs from the required one: typed in
\* lower case, typed in capitals, or absent
Desvios ==
    {[hoja |-> h, columna |-> c, como |-> v] :
        h \in {SHEET_ESTACIONES, SHEET_SENSORES, SHEET_VARIABLES},
        c \in UNION {REQUIRED_COLUMNS[g] : g \in DOMAIN REQUIRED_COLUMNS},
        v \in {"minusculas", "mayusculas", "ausente"}}

DesviosDeHoja == {d \in Desvios : d.columna \in REQUIRED_COLUMNS[d.hoja]}

RECURSIVE ConDesvios(_)
\* the sets of at most n deviations, at most one for a column of a sheet
ConDesvios(n) ==
    IF n = 0 THEN {{}}
    ELSE LET P == ConDesvios(n - 1)
         IN  P \cup {E \cup {d} : <<E, d>> \in
                        {x \in P \X DesviosDeHoja :
                            \A e \in x[1] : e.hoja # x[2].hoja
                                            \/ e.columna # x[2].columna}}

\* the headers of sheet h of a workbook with the deviations D
Encabezados(h, D) ==
    LET de(c) == {d \in D : d.hoja = h /\ d.columna = c}
        como(c) == IF de(c) = {} THEN "exacto"
                   ELSE (CHOOSE d \in de(c) : TRUE).como
    IN  {IF como(c) = "minusculas" THEN lower(c)
         ELSE IF como(c) = "mayusculas" THEN upper(c) ELSE c :
            c \in {x \in REQUIRED_COLUMNS[h] : como(x) # "ausente"}}

Libros ==
    {[h \in DOMAIN REQUIRED_COLUMNS |-> Encabezados(h, D)] :
        D \in ConDesvios(MaxDesvios)}

InitCarga ==
    /\ pc = "archivo"
    /\ periodo = 1
    /\ fecha_ref = FechaRef0
    /\ prev = PrevAusente
    /\ act \in Libros
    /\ final = <<>>
    /\ ahora = fecha_ref
    /\ proc = NoProc

\* cargar_excel: rename, then validate the three sheets in order; the first
\* sheet with missing columns raises FileValidationError with its name and
\* the missing columns
cargar_excel ==
    /\ pc = "archivo"
    /\ LET datos == [h \in DOMAIN act |-> normalizar_nombres_columnas(act[h])]
           falta(h) == validar_columnas(datos[h], REQUIRED_COLUMNS[h])
           malas == {i \in 1..Len(HOJAS) : falta(HOJAS[i]) # {}}
       IN  IF malas = {} THEN
               /\ pc' = "cargado"
               /\ final' = [datos |-> datos]
           ELSE
               LET i == CHOOSE i \in malas : \A j \in malas : i <= j
               IN  /\ pc' = "FileValidationError"
                   /\ final' = [hoja |-> HOJAS[i], faltantes |-> falta(HOJAS[i])]
    /\ UNCHANGED <<periodo, fecha_ref, prev, act, ahora, proc>>

\* main.procesar_datos: the three processors index their columns by name; a
\* missing name is a KeyError, re-raised as 'Error procesando datos'
procesar_datos ==
    /\ pc = "cargado"
    /\ pc' = IF \A h \in DOMAIN INDEXADAS : INDEXADAS[h] \subseteq final.datos[h]
             THEN "datos procesados" ELSE "Error procesando datos"
    /\ UNCHANGED <<periodo, fecha_ref, prev, act, final, ahora, proc>>

NextCarga == cargar_excel \/ procesar_datos

SpecCarga == InitCarga /\ [][NextCarga]_vars

----------------------------------------------------------------------------
(* Loading: what is rejected and what is processed *)

\* the required columns of sheet h without a case-insensitive match among
\* the headers of the workbook
SinPareja(h) ==
    LET sin_caja == {lower(c) : c \in act[h]}
    IN  {r \in REQUIRED_COLUMNS[h] : \A c \in sin_caja : c # lower(r)}

C30_ValidacionSuficiente ==
    /\ pc = "cargado" =>
           \A h \in DOMAIN INDEXADAS : INDEXADAS[h] \subseteq final.datos[h]
    /\ pc # "Error procesando datos"

====
